---- MODULE Spec2Model ----
(***************************************************************************)
(* FoldersPreferencesProvider                                              *)
(* packages/preferences/src/browser/folders-preferences-provider.ts        *)
(*                                                                         *)
(* The registry of per-folder preference providers: reconciliation against *)
(* the workspace roots, candidate selection, resolve, getPreferences and   *)
(* the three-round setPreference routing.                                  *)
(***************************************************************************)
EXTENDS Integers, Sequences, FiniteSets, TLC

VARIABLES
    roots,          \* workspaceService.tryGetRoots(): sequence of folder uris
    pc,             \* position of init(): "awaitRoots" | "running"
    providers,      \* this.providers: Map in insertion order, a sequence of provider objects
    nextId,         \* identity of the next provider object the factory makes
    toDispose,      \* this.toDispose: what createProvider pushed
    disposeCalls,   \* per provider object: number of dispose() calls received
    readiness,      \* per provider object: state of provider.ready
    readyPromises,  \* provider objects whose ready init() waits for
    registryReady,  \* this._ready resolved
    tornDown,       \* the registry's own dispose() ran
    lastOp,         \* the lifecycle operation that ran last
    call,           \* the read call that just returned: its inputs and its result
    sp,             \* the setPreference call in progress: its inputs, queue and attempts
    listeners,      \* provider objects whose change events a registry listener forwards
    firedLog,       \* the change events fired by providers not yet disposed, by provider object
    stream          \* the events fired on the registry's onDidPreferencesChangedEmitter

vars == <<roots, pc, providers, nextId, toDispose, disposeCalls, readiness,
          readyPromises, registryReady, tornDown, lastOp, call, sp,
          listeners, firedLog, stream>>

(***************************************************************************)
(* Bounds                                                                  *)
(***************************************************************************)
MaxCreated == 5
MaxEvents == 2

(***************************************************************************)
(* Collaborators: workspace folders and the config-location resolver       *)
(***************************************************************************)
Folders == {"/root1", "/root2"}

Cfg(f, p, n) == [folder |-> f, path |-> p, name |-> n]

\* configurations.getUris(folderUri): the config identities of one folder, in reported order
getUris(f) ==
    IF f = "/root1"
    THEN << Cfg(f, ".theia", "settings"), Cfg(f, ".vscode", "settings"),
            Cfg(f, ".vscode", "launch"), Cfg(f, ".custom", "settings") >>
    ELSE << Cfg(f, ".theia", "settings") >>

\* configurations.getName(configUri) / getPath(configUri)
getName(configUri) == configUri.name
getPath(configUri) == configUri.path

Range(s) == { s[i] : i \in DOMAIN s }

\* sequences of distinct folders: what the workspace can report
RootSeqs == { s \in UNION { [1..n -> Folders] : n \in 0..Cardinality(Folders) } :
                \A i, j \in DOMAIN s : i # j => s[i] # s[j] }

(***************************************************************************)
(* Registry: createProvider and updateProviders                            *)
(***************************************************************************)
\* has() that never finds the key
hasNever(map, key) == FALSE

\* this.providers.has(key) / keys()
has(map, key) == \E i \in DOMAIN map : map[i].configUri = key
keys(map) == { map[i].configUri : i \in DOMAIN map }

\* the provider object the factory returns for { folder, configUri }
createProvider(id, folder, configUri) ==
    [id |-> id, folderUri |-> folder, configUri |-> configUri]

\* what createProvider pushes to this.toDispose for that object
createProviderDisposables(id) ==
    << [kind |-> "provider", id |-> id], [kind |-> "subscription", id |-> id] >>

\* lines 58-65 for one folder: create and set the providers whose key is not in the map
RECURSIVE addFolder(_, _, _)
addFolder(folder, uris, st) ==
    IF uris = <<>> THEN st
    ELSE LET key == Head(uris) IN
         IF has(st.map, key)
         THEN addFolder(folder, Tail(uris), st)
         ELSE addFolder(folder, Tail(uris),
                  [map       |-> Append(st.map, createProvider(st.next, folder, key)),
                   next      |-> st.next + 1,
                   toDispose |-> st.toDispose \o createProviderDisposables(st.next)])

\* lines 57-66: the loop over the roots
RECURSIVE addRoots(_, _)
addRoots(rs, st) ==
    IF rs = <<>> THEN st
    ELSE addRoots(Tail(rs), addFolder(Head(rs), getUris(Head(rs)), st))

\* toDelete emptied whatever the roots are
toDeleteNone(map, rs) == {}

\* lines 56-60: the keys left in toDelete after the loop
toDelete(map, rs) ==
    keys(map) \ UNION { Range(getUris(rs[i])) : i \in DOMAIN rs }

\* the entries stay in the map
removeDeletedNone(map, del) == map

\* lines 67-73: entries of toDelete leave the map
removeDeleted(map, del) == SelectSeq(map, LAMBDA p : p.configUri \notin del)

\* removal without provider.dispose()
disposedByNone(map, del) == {}

\* lines 67-73: the provider objects that get dispose() called
disposedBy(map, del) == { map[i].id : i \in { j \in DOMAIN map : map[j].configUri \in del } }

\* updateProviders(): the registry after one reconciliation against rs
updateProviders(rs) ==
    LET added == addRoots(rs, [map |-> providers, next |-> nextId, toDispose |-> toDispose])
        del   == toDelete(providers, rs)
    IN  [map       |-> removeDeleted(added.map, del),
         next      |-> added.next,
         toDispose |-> added.toDispose,
         disposed  |-> disposedBy(providers, del)]

\* a disposed provider leaves the disposable collection it was pushed to
withoutDisposed(coll, disposed) ==
    SelectSeq(coll, LAMBDA e : ~(e.kind = "provider" /\ e.id \in disposed))

\* no listener is registered
forwardedNone(id) == {}

\* line 184: the provider objects the listener registered for a new provider forwards
forwarded(id) == {id}

\* a disposed provider releases the listeners of its change events
released(disposed) == disposed

\* the registry variables after updateProviders()
Reconcile(rs) ==
    LET u == updateProviders(rs) IN
    /\ u.next - 1 <= MaxCreated
    /\ providers' = u.map
    /\ nextId' = u.next
    /\ toDispose' = withoutDisposed(u.toDispose, u.disposed)
    /\ disposeCalls' = [id \in 1..(u.next - 1) |->
                          IF id \in u.disposed THEN disposeCalls[id] + 1
                          ELSE IF id < nextId THEN disposeCalls[id] ELSE 0]
    /\ readiness' = [id \in 1..(u.next - 1) |->
                          IF id < nextId THEN readiness[id] ELSE "pending"]
    /\ listeners' = (listeners \cup UNION { forwarded(id) : id \in nextId..(u.next - 1) })
                        \ released(u.disposed)

ids(map) == { map[i].id : i \in DOMAIN map }

(***************************************************************************)
(* Source providers: what one provider answers about a resource            *)
(***************************************************************************)
NoUri == Cfg("", "", "")        \* undefined config uri
Undefined == "undefined"        \* undefined preference value
Values == {"A", "B"}
PrefNames == {"editor.tabSize"}
Scores == {-1, 0, 2, 5}         \* relativity of a folder path to a resource path

\* resourceUri === undefined
NoResource == [given |-> FALSE, relativity |-> [f \in Folders |-> -1], applies |-> {}]

\* a resource is what the collaborators answer about it: the relativity of every
\* folder to it and the providers (by config uri) whose getConfigUri(resourceUri) is defined
ResourcesOver(ks) == [given : {TRUE}, relativity : [Folders -> Scores], applies : SUBSET ks]

\* the preference maps of the providers with keys ks
PrefsOver(ks) == [ks -> [PrefNames -> Values \cup {Undefined}]]

\* provider.folderUri.path.relativity(resourcePath)
relativity(folderUri, res) == res.relativity[folderUri]

\* provider.getConfigUri(resourceUri)
providerGetConfigUri(p, res) ==
    IF ~res.given \/ p.configUri \in res.applies THEN p.configUri ELSE NoUri

\* provider.getConfigUri()
providerOwnConfigUri(p) == p.configUri

\* provider.resolve(preferenceName, resourceUri)
providerResolve(p, name, res, prefs) ==
    [value |-> prefs[p.configUri][name], configUri |-> providerGetConfigUri(p, res)]

\* provider.getPreferences()
providerGetPreferences(p, prefs) == prefs[p.configUri]

(***************************************************************************)
(* Resolution engine: getProviders, resolve, getPreferences                *)
(***************************************************************************)
NoFolder == [relativity |-> -1, uri |-> ""]

\* the first containing folder is kept
closerFirst(rel, folder) == rel >= 0 /\ folder.relativity < 0

\* line 174: the folder replaces the selected one
closer(rel, folder) == rel >= 0 /\ folder.relativity <= rel

\* lines 167-177: the folder selected after the loop over this.providers.values()
RECURSIVE selectFolder(_, _, _)
selectFolder(map, res, folder) ==
    IF map = <<>> THEN folder
    ELSE LET uri == Head(map).folderUri
             rel == relativity(uri, res)
         IN  selectFolder(Tail(map), res,
                 IF closer(rel, folder) THEN [relativity |-> rel, uri |-> uri] ELSE folder)

\* without a resource every provider is a candidate
getProvidersAll(map, res) ==
    IF ~res.given THEN map
    ELSE LET folder == selectFolder(map, res, NoFolder) IN
         IF folder.uri # "" THEN SelectSeq(map, LAMBDA p : p.folderUri = folder.uri) ELSE <<>>

\* getProviders(resourceUri)
getProviders(map, res) ==
    IF ~res.given THEN <<>>
    ELSE LET folder == selectFolder(map, res, NoFolder) IN
         IF folder.uri # "" THEN SelectSeq(map, LAMBDA p : p.folderUri = folder.uri) ELSE <<>>

EmptyResult == [value |-> Undefined, configUri |-> NoUri]

\* a defined value is enough
qualifiesValueOnly(r) == r.value # Undefined

\* line 93: the provider's answer is returned
qualifies(r) == r.value # Undefined /\ r.configUri # NoUri

\* lines 91-97: the loop over the candidates
RECURSIVE resolveIn(_, _, _, _)
resolveIn(cands, name, res, prefs) ==
    IF cands = <<>> THEN EmptyResult
    ELSE LET r == providerResolve(Head(cands), name, res, prefs) IN
         IF qualifies(r) THEN r ELSE resolveIn(Tail(cands), name, res, prefs)

\* resolve(preferenceName, resourceUri)
resolve(map, name, res, prefs) == resolveIn(getProviders(map, res), name, res, prefs)

Reverse(s) == [i \in 1..Len(s) |-> s[Len(s) + 1 - i]]

\* keys already in result are kept
assignKeep(result, preferences) ==
    [n \in PrefNames |-> IF result[n] # Undefined THEN result[n] ELSE preferences[n]]

\* Object.assign(result, preferences)
assign(result, preferences) ==
    [n \in PrefNames |-> IF preferences[n] # Undefined THEN preferences[n] ELSE result[n]]

\* no check of collectedConfigs
collectsAlways(configName, collectedConfigs) == TRUE

\* line 107: the provider's preferences are collected
collects(configName, collectedConfigs) == configName \notin collectedConfigs

\* lines 103-113: the loop over the reversed candidates; contributors lists the
\* providers whose getPreferences() was called, in call order
RECURSIVE collectIn(_, _, _, _)
collectIn(cands, res, prefs, acc) ==
    IF cands = <<>> THEN acc
    ELSE LET provider  == Head(cands)
             configUri == providerGetConfigUri(provider, res)
         IN  IF configUri # NoUri /\ collects(getName(configUri), acc.collectedConfigs)
             THEN collectIn(Tail(cands), res, prefs,
                      [result          |-> assign(acc.result, providerGetPreferences(provider, prefs)),
                       collectedConfigs |-> acc.collectedConfigs \cup {getName(configUri)},
                       contributors    |-> Append(acc.contributors, provider)])
             ELSE collectIn(Tail(cands), res, prefs, acc)

EmptyPrefs == [n \in PrefNames |-> Undefined]

\* getPreferences(resourceUri)
getPreferences(map, res, prefs) ==
    collectIn(Reverse(getProviders(map, res)), res, prefs,
              [result |-> EmptyPrefs, collectedConfigs |-> {}, contributors |-> <<>>])

(***************************************************************************)
(* Write router: setPreference                                             *)
(***************************************************************************)
\* a preference name is the sequence of its '.'-separated segments
SettingNames == { <<"editor", "tabSize">>, <<"launch", "configurations">>, <<"tasks", "version">> }

\* configurations.isSectionName(name) / getConfigName()
SectionNames == {"launch", "tasks"}
isSectionName(name) == name \in SectionNames
getConfigName == "settings"

\* line 118: preferenceName.split('.', 1)[0]
sectionNameOf(preferenceName) == Head(preferenceName)

\* line 119: the target config name
targetConfigName(preferenceName) ==
    IF isSectionName(sectionNameOf(preferenceName))
    THEN sectionNameOf(preferenceName) ELSE getConfigName

\* lines 126-131: configPath after the loop, the path of the first candidate that
\* yields a config uri for the resource
RECURSIVE referencePath(_, _)
referencePath(cands, res) ==
    IF cands = <<>> THEN Undefined
    ELSE LET configUri == providerGetConfigUri(Head(cands), res) IN
         IF configUri # NoUri THEN getPath(configUri) ELSE referencePath(Tail(cands), res)

\* every candidate gets a closure
namedAlways(provider, configName) == TRUE

\* line 132: the provider gets a closure
named(provider, configName) == getName(providerOwnConfigUri(provider)) = configName

\* lines 125-145: the closures pushed by the loop, one per target-named candidate
initialIterator(cands, configName) ==
    LET targets == SelectSeq(cands, LAMBDA p : named(p, configName))
    IN  [i \in 1..Len(targets) |-> [round |-> "A", provider |-> targets[i]]]

\* the first closure returns its provider whatever the resource
inRoundAAlways(provider, res) == TRUE

\* line 134: the first closure returns its provider
inRoundA(provider, res) == providerGetConfigUri(provider, res) # NoUri

\* line 138: the second closure returns its provider
inRoundB(provider, configPath) == getPath(providerOwnConfigUri(provider)) = configPath

\* lines 133-143: one closure runs; it returns its provider or pushes its successor
closureReturns(c, res, configPath) ==
    \/ c.round = "A" /\ inRoundA(c.provider, res)
    \/ c.round = "B" /\ inRoundB(c.provider, configPath)
    \/ c.round = "C"

successor(c) == [round |-> IF c.round = "A" THEN "B" ELSE "C", provider |-> c.provider]

\* a closure that returns its provider still pushes its successor
RECURSIVE advanceRequeue(_)
advanceRequeue(st) ==
    IF st.iterator = <<>>
    THEN [st EXCEPT !.pc = "done", !.result = FALSE]
    ELSE LET next == Head(st.iterator) IN
         IF closureReturns(next, st.res, st.configPath)
         THEN [st EXCEPT !.pc = "await",
                         !.iterator = IF next.round = "C" THEN Tail(st.iterator)
                                      ELSE Append(Tail(st.iterator), successor(next)),
                         !.attempts = Append(st.attempts, next.provider)]
         ELSE advanceRequeue([st EXCEPT !.iterator = Append(Tail(st.iterator), successor(next))])

\* lines 147-156 up to the next await: closures are shifted and run until one
\* returns a provider, whose write is then awaited, or the queue is empty
RECURSIVE advance(_)
advance(st) ==
    IF st.iterator = <<>>
    THEN [st EXCEPT !.pc = "done", !.result = FALSE]
    ELSE LET next == Head(st.iterator) IN
         IF closureReturns(next, st.res, st.configPath)
         THEN [st EXCEPT !.pc = "await",
                         !.iterator = Tail(st.iterator),
                         !.attempts = Append(st.attempts, next.provider)]
         ELSE advance([st EXCEPT !.iterator = Append(Tail(st.iterator), successor(next))])

NoCall == [pc |-> "idle", name |-> <<>>, res |-> NoResource, configName |-> "",
           providers |-> <<>>, configPath |-> Undefined, iterator |-> <<>>,
           attempts |-> <<>>, outcomes |-> <<>>, held |-> <<>>, result |-> FALSE]

\* lines 117-147: the call's state when it reaches its first await or returns
setPreference(map, preferenceName, res) ==
    LET configName == targetConfigName(preferenceName)
        cands      == getProviders(map, res)
    IN  advance([NoCall EXCEPT !.name = preferenceName, !.res = res,
                               !.configName = configName,
                               !.providers = cands,
                               !.configPath = referencePath(cands, res),
                               !.iterator = initialIterator(cands, configName)])

(***************************************************************************)
(* Initial state and lifecycle actions                                     *)
(***************************************************************************)
registryVars == <<providers, nextId, toDispose, disposeCalls, readiness, listeners>>
eventVars == <<firedLog, stream>>

Idle == [op |-> "idle", name |-> "", res |-> NoResource, prefs |-> <<>>,
         value |-> Undefined, configUri |-> NoUri, list |-> <<>>, map |-> EmptyPrefs]

Init ==
    /\ roots \in RootSeqs
    /\ pc = "awaitRoots"
    /\ providers = <<>>
    /\ nextId = 1
    /\ toDispose = <<>>
    /\ disposeCalls = <<>>
    /\ readiness = <<>>
    /\ readyPromises = {}
    /\ registryReady = FALSE
    /\ tornDown = FALSE
    /\ lastOp = "new"
    /\ call = Idle
    /\ sp = NoCall
    /\ listeners = {}
    /\ firedLog = <<>>
    /\ stream = <<>>

\* init() after workspaceService.roots resolved: lines 44-51
init ==
    /\ pc = "awaitRoots"
    /\ ~tornDown
    /\ call = Idle
    /\ Reconcile(roots)
    /\ readyPromises' = ids(providers')
    /\ pc' = "running"
    /\ lastOp' = "init"
    /\ UNCHANGED <<roots, registryReady, tornDown, call, sp, eventVars>>

\* the workspace reports new roots; once init() subscribed (line 45), the handler
\* runs updateProviders()
WorkspaceChanged ==
    \E rs \in RootSeqs :
    /\ ~tornDown
    /\ call = Idle
    /\ roots' = rs
    /\ IF pc = "running"
       THEN /\ Reconcile(rs)
            /\ lastOp' = IF rs = roots THEN "updateProvidersUnchanged" ELSE "updateProviders"
       ELSE /\ UNCHANGED registryVars
            /\ lastOp' = "rootsChanged"
    /\ UNCHANGED <<pc, readyPromises, registryReady, tornDown, call, sp, eventVars>>

\* provider.ready of one provider object settles
ProviderReadySettles ==
    \E id \in DOMAIN readiness, outcome \in {"fulfilled", "rejected"} :
    /\ readiness[id] = "pending"
    /\ call = Idle
    /\ readiness' = [readiness EXCEPT ![id] = outcome]
    /\ lastOp' = "providerReady"
    /\ UNCHANGED <<roots, pc, providers, nextId, toDispose, disposeCalls,
                   readyPromises, registryReady, tornDown, call, sp, listeners, eventVars>>

\* provider.ready without the catch
settledNoCatch(r) == r = "fulfilled"

\* line 49: provider.ready.catch(e => console.error(e)) has settled
settled(r) == r # "pending"

\* line 51: Promise.all(readyPromises).then(() => this._ready.resolve())
ReadyResolve ==
    /\ pc = "running"
    /\ ~registryReady
    /\ call = Idle
    /\ \A id \in readyPromises : settled(readiness[id])
    /\ registryReady' = TRUE
    /\ lastOp' = "ready"
    /\ UNCHANGED <<roots, pc, registryVars, readyPromises, tornDown, call, sp, eventVars>>

\* number of entries of the disposable collection that dispose provider object id
RECURSIVE providerEntries(_, _)
providerEntries(s, id) ==
    IF s = <<>> THEN 0
    ELSE (IF Head(s).kind = "provider" /\ Head(s).id = id THEN 1 ELSE 0)
         + providerEntries(Tail(s), id)

\* the registry's dispose(): this.toDispose.dispose()
dispose ==
    /\ pc = "running"
    /\ ~tornDown
    /\ call = Idle
    /\ tornDown' = TRUE
    /\ disposeCalls' = [id \in DOMAIN disposeCalls |->
                           disposeCalls[id] + providerEntries(toDispose, id)]
    /\ toDispose' = <<>>
    /\ lastOp' = "dispose"
    /\ listeners' = {}
    /\ UNCHANGED <<roots, pc, providers, nextId, readiness, readyPromises, registryReady, call, sp, eventVars>>

\* the source of one provider object fires a change event: it reaches the
\* provider's listeners unless the provider is disposed, and a registry listener
\* fires it on the aggregated stream (line 184)
ProviderFiresChange ==
    /\ Len(firedLog) < MaxEvents
    /\ \E id \in DOMAIN disposeCalls :
       /\ firedLog' = IF disposeCalls[id] = 0 THEN Append(firedLog, id) ELSE firedLog
       /\ stream' = IF id \in listeners THEN Append(stream, id) ELSE stream
    /\ lastOp' = "change"
    /\ UNCHANGED <<roots, pc, registryVars, readyPromises, registryReady, tornDown, call, sp>>

(***************************************************************************)
(* Read calls: one synchronous call at a time, with the collaborators'     *)
(* answers as inputs                                                       *)
(***************************************************************************)
readUnchanged == <<roots, pc, registryVars, readyPromises, registryReady, tornDown, lastOp, sp, eventVars>>

\* the resources a read call is made with: no resource, and for every candidate
\* list some folder relativities select, one such resource per set of applicable providers
Resources(map) ==
    LET rels  == [given : {TRUE}, relativity : [Folders -> Scores], applies : {{}}]
        lists == { getProviders(map, r) : r \in rels }
        one(l) == CHOOSE r \in rels : getProviders(map, r) = l
    IN  {NoResource} \cup
        UNION { { [one(l) EXCEPT !.applies = a] : a \in SUBSET keys(l) } : l \in lists }

GetProvidersCall ==
    /\ pc = "running" /\ ~tornDown /\ call = Idle
    /\ \E rel \in [Folders -> Scores], given \in BOOLEAN :
       LET res == IF given THEN [given |-> TRUE, relativity |-> rel, applies |-> {}]
                  ELSE NoResource IN
       call' = [Idle EXCEPT !.op = "getProviders", !.res = res,
                            !.list = getProviders(providers, res)]
    /\ UNCHANGED readUnchanged

ResolveCall ==
    /\ pc = "running" /\ ~tornDown /\ call = Idle
    /\ \E res \in Resources(providers), name \in PrefNames :
       \E prefs \in PrefsOver(keys(getProviders(providers, res))) :
       LET r == resolve(providers, name, res, prefs) IN
       call' = [Idle EXCEPT !.op = "resolve", !.name = name, !.res = res, !.prefs = prefs,
                            !.value = r.value, !.configUri = r.configUri]
    /\ UNCHANGED readUnchanged

GetPreferencesCall ==
    /\ pc = "running" /\ ~tornDown /\ call = Idle
    /\ \E res \in Resources(providers) :
       \E prefs \in PrefsOver(keys(getProviders(providers, res))) :
       LET r == getPreferences(providers, res, prefs) IN
       call' = [Idle EXCEPT !.op = "getPreferences", !.res = res, !.prefs = prefs,
                            !.map = r.result, !.list = r.contributors]
    /\ UNCHANGED readUnchanged

\* the caller takes the result
Return ==
    /\ call # Idle
    /\ call' = Idle
    /\ UNCHANGED readUnchanged

(***************************************************************************)
(* Write calls: one setPreference call at a time, suspended at each await  *)
(***************************************************************************)
writeUnchanged == <<roots, pc, registryVars, readyPromises, registryReady, tornDown, lastOp, call, eventVars>>

\* when the call st made a new attempt: whether the registry map holds the
\* attempted provider at that moment
attempted(old, st, map) ==
    IF Len(st.attempts) > Len(old.attempts)
    THEN [st EXCEPT !.held = Append(@, st.attempts[Len(st.attempts)] \in Range(map))]
    ELSE st

SetPreferenceCall ==
    /\ pc = "running" /\ ~tornDown /\ call = Idle /\ sp.pc = "idle"
    /\ \E res \in Resources(providers), name \in SettingNames :
       sp' = attempted(NoCall, setPreference(providers, name, res), providers)
    /\ UNCHANGED writeUnchanged

\* line 151: the awaited provider.setPreference(...) settles
WriteSettles ==
    /\ sp.pc = "await"
    /\ \E outcome \in {"true", "false", "throw"} :
       LET st == [sp EXCEPT !.outcomes = Append(sp.outcomes, outcome)] IN
       sp' = CASE outcome = "true"  -> [st EXCEPT !.pc = "done", !.result = TRUE]
               [] outcome = "false" -> attempted(st, advance(st), providers)
               [] outcome = "throw" -> [st EXCEPT !.pc = "threw"]
    /\ UNCHANGED writeUnchanged

\* the caller takes the boolean or the rejection
SetPreferenceReturn ==
    /\ sp.pc \in {"done", "threw"}
    /\ sp' = NoCall
    /\ UNCHANGED writeUnchanged

(***************************************************************************)
(* Specifications                                                          *)
(***************************************************************************)
\* the registry's lifecycle
Next ==
    \/ init
    \/ WorkspaceChanged
    \/ dispose

Spec == Init /\ [][Next]_vars

\* the lifecycle with the providers' change events
NextEvents ==
    \/ init
    \/ WorkspaceChanged
    \/ ProviderFiresChange
    \/ dispose

SpecEvents == Init /\ [][NextEvents]_vars

\* the lifecycle with the providers' readiness
NextReady ==
    \/ init
    \/ WorkspaceChanged
    \/ ProviderReadySettles
    \/ ReadyResolve

SpecReady == Init /\ [][NextReady]_vars /\ WF_vars(ReadyResolve)

\* the registry under topology changes, read by its consumers
NextRead ==
    \/ init
    \/ WorkspaceChanged
    \/ GetProvidersCall
    \/ ResolveCall
    \/ GetPreferencesCall
    \/ Return

SpecRead == Init /\ [][NextRead]_vars

\* the registry under topology changes, written through setPreference
NextWrite ==
    \/ init
    \/ WorkspaceChanged
    \/ SetPreferenceCall
    \/ WriteSettles
    \/ SetPreferenceReturn

SpecWrite == Init /\ [][NextWrite]_vars

\* the calls made without a resource
GetProvidersNoResource == GetProvidersCall /\ ~call'.res.given
ResolveNoResource == ResolveCall /\ ~call'.res.given
GetPreferencesNoResource == GetPreferencesCall /\ ~call'.res.given
SetPreferenceNoResource == SetPreferenceCall /\ ~sp'.res.given

\* the registry under topology changes, called without a resource
NextNoResource ==
    \/ init
    \/ WorkspaceChanged
    \/ GetProvidersNoResource
    \/ ResolveNoResource
    \/ GetPreferencesNoResource
    \/ Return
    \/ SetPreferenceNoResource
    \/ SetPreferenceReturn

SpecNoResource == Init /\ [][NextNoResource]_vars

(***************************************************************************)
(* Properties                                                              *)
(***************************************************************************)
\* the candidates of the read call that just returned
callCands == getProviders(providers, call.res)
\* candidate i yields a config identity for the call's resource
callApplies(i) == callCands[i].configUri \in call.res.applies
\* candidate i's value for preference n
callValue(i, n) == call.prefs[callCands[i].configUri][n]
\* candidate i is the canonical-latest applicable candidate of its config name
callContributes(i) ==
    /\ callApplies(i)
    /\ ~ \E j \in DOMAIN callCands :
           j > i /\ callApplies(j)
           /\ getName(callCands[j].configUri) = getName(callCands[i].configUri)

\* C1: resolve returns the answer of the first candidate, in canonical order, whose
\* own resolve yields both a defined value and a config identity, and the empty
\* result when no candidate does; a later candidate never wins over an earlier one.
C1_ResolveFirstMatch ==
    call.op = "resolve" =>
        LET ok(i) == callValue(i, call.name) # Undefined /\ callApplies(i)
            got   == [value |-> call.value, configUri |-> call.configUri]
        IN  IF \E i \in DOMAIN callCands : ok(i)
            THEN \E i \in DOMAIN callCands :
                    /\ ok(i)
                    /\ \A j \in 1..(i - 1) : ~ok(j)
                    /\ got = [value |-> callValue(i, call.name), configUri |-> callCands[i].configUri]
            ELSE got = EmptyResult

\* two candidates qualify with different values and the earlier one was returned
C1_Witness ==
    /\ call.op = "resolve"
    /\ \E i, j \in DOMAIN callCands :
          /\ i < j /\ callApplies(i) /\ callApplies(j)
          /\ callValue(i, call.name) \in Values /\ callValue(j, call.name) \in Values
          /\ callValue(i, call.name) # callValue(j, call.name)
          /\ call.configUri = callCands[i].configUri
          /\ \E h \in 1..(i - 1) : callValue(h, call.name) # Undefined /\ ~callApplies(h)

\* C2: for a given resource getProviders returns exactly the live providers of one
\* folder whose relativity is non-negative and maximal among the live providers'
\* folders, in canonical order, and the empty list when no live folder contains it.
C2_SelectCandidates ==
    call.op = "getProviders" =>
        LET live       == { providers[i].folderUri : i \in DOMAIN providers }
            containing == { f \in live : call.res.given /\ call.res.relativity[f] >= 0 }
        IN  IF containing = {}
            THEN call.list = <<>>
            ELSE \E f \in containing :
                    /\ \A g \in containing : call.res.relativity[g] <= call.res.relativity[f]
                    /\ call.list = SelectSeq(providers, LAMBDA p : p.folderUri = f)

\* the resource is in /root1 with score 2 and in /root2 with score 5: /root2's providers
C2_Witness ==
    /\ call.op = "getProviders"
    /\ call.res.given
    /\ call.res.relativity["/root1"] = 2 /\ call.res.relativity["/root2"] = 5
    /\ \E i, j \in DOMAIN providers :
          i < j /\ providers[i].folderUri = "/root2" /\ providers[j].folderUri = "/root1"
    /\ call.list # <<>>
    /\ \A i \in DOMAIN call.list : call.list[i].folderUri = "/root2"

\* C5 as stated: for candidates P1 before P2 with distinct config names that both
\* define k with different values, getPreferences returns P1's value for k.
C5_ForwardPriorityOnMerge ==
    call.op = "getPreferences" =>
        \A i, j \in DOMAIN callCands, k \in PrefNames :
            ( /\ i < j
              /\ getName(callCands[i].configUri) # getName(callCands[j].configUri)
              /\ callValue(i, k) # Undefined /\ callValue(j, k) # Undefined
              /\ callValue(i, k) # callValue(j, k) )
            => call.map[k] = callValue(i, k)

\* C5 amended: the same, provided P1 contributes (it yields a config identity for
\* the resource and no later candidate of its config name does) and no contributing
\* candidate before P1 defines k.
C5_ForwardPriorityAmended ==
    call.op = "getPreferences" =>
        \A i, j \in DOMAIN callCands, k \in PrefNames :
            ( /\ i < j
              /\ getName(callCands[i].configUri) # getName(callCands[j].configUri)
              /\ callValue(i, k) # Undefined /\ callValue(j, k) # Undefined
              /\ callValue(i, k) # callValue(j, k)
              /\ callContributes(i)
              /\ \A h \in 1..(i - 1) : callContributes(h) => callValue(h, k) = Undefined )
            => call.map[k] = callValue(i, k)

\* P1 and P2 of distinct names both contribute different values for k: P1's is returned
C5_Witness ==
    /\ call.op = "getPreferences"
    /\ \E i, j \in DOMAIN callCands, k \in PrefNames :
          /\ i < j
          /\ getName(callCands[i].configUri) # getName(callCands[j].configUri)
          /\ callValue(i, k) \in Values /\ callValue(j, k) \in Values
          /\ callValue(i, k) # callValue(j, k)
          /\ callContributes(i) /\ callContributes(j)
          /\ call.map[k] = callValue(i, k)

\* C6: the providers whose preference map getPreferences takes are exactly, per
\* config name, the canonical-latest candidate that yields a config identity for the
\* resource: one per name, and a candidate without identity suppresses nobody.
C6_OneContributorPerName ==
    call.op = "getPreferences" =>
        /\ Range(call.list) = { callCands[i] : i \in { j \in DOMAIN callCands : callContributes(j) } }
        /\ \A a, b \in DOMAIN call.list :
              a # b => getName(call.list[a].configUri) # getName(call.list[b].configUri)

\* two applicable candidates share a name, a later one of that name is not
\* applicable: the later applicable one contributed, the earlier did not
C6_Witness ==
    /\ call.op = "getPreferences"
    /\ \E i, j, l \in DOMAIN callCands :
          /\ i < j /\ j < l
          /\ getName(callCands[i].configUri) = getName(callCands[j].configUri)
          /\ getName(callCands[l].configUri) = getName(callCands[j].configUri)
          /\ callApplies(i) /\ callApplies(j) /\ ~callApplies(l)
          /\ callCands[j] \in Range(call.list)
          /\ callCands[i] \notin Range(call.list)

\* position of provider p among the candidates of the setPreference call
spIndex(p) == CHOOSE i \in DOMAIN sp.providers : sp.providers[i] = p
\* the round of a target-named candidate, from the call's inputs
spRound(p) ==
    IF p.configUri \in sp.res.applies THEN 1
    ELSE IF getPath(p.configUri) = referencePath(sp.providers, sp.res) THEN 2
    ELSE 3
\* the target-named candidates of the call
spTargets ==
    { sp.providers[i] : i \in { j \in DOMAIN sp.providers :
                                  getName(sp.providers[j].configUri) = sp.configName } }
\* q comes before p in round order, canonical order within a round
spBefore(q, p) ==
    \/ spRound(q) < spRound(p)
    \/ spRound(q) = spRound(p) /\ spIndex(q) < spIndex(p)

\* C3: setPreference attempts writes on target-named candidates only, in round
\* order (applicable to the resource, then path equal to the reference path, then
\* the rest) and in canonical order within a round, every candidate of an earlier
\* position having been attempted first, and it returns true at the first write
\* that reports success, attempting nothing after it.
C3_RoundOrder ==
    /\ \A k \in DOMAIN sp.attempts :
          /\ sp.attempts[k] \in spTargets
          /\ \A q \in spTargets :
                spBefore(q, sp.attempts[k]) => \E h \in 1..(k - 1) : sp.attempts[h] = q
          /\ \A h \in 1..(k - 1) : spBefore(sp.attempts[h], sp.attempts[k])
    /\ \A k \in DOMAIN sp.outcomes :
          sp.outcomes[k] = "true" =>
              k = Len(sp.attempts) /\ sp.pc = "done" /\ sp.result = TRUE
    /\ (sp.pc = "done" /\ sp.result = TRUE) =>
          sp.outcomes # <<>> /\ sp.outcomes[Len(sp.outcomes)] = "true"

\* candidates [Qa, Qb, Qc] of the target name, Qa not applicable with another
\* path, Qb not applicable with the reference path, Qc applicable: Qc, Qb, Qa
C3_Witness ==
    /\ Len(sp.attempts) = 3
    /\ spRound(sp.attempts[1]) = 1 /\ spRound(sp.attempts[2]) = 2 /\ spRound(sp.attempts[3]) = 3
    /\ spIndex(sp.attempts[1]) > spIndex(sp.attempts[2])
    /\ spIndex(sp.attempts[2]) > spIndex(sp.attempts[3])
    /\ sp.pc = "done" /\ sp.result = TRUE

\* C4: a provider write that throws is not surfaced: the setPreference call never
\* ends with an exception, it completes with a boolean.
C4_WriteThrowNotSurfaced ==
    sp.pc # "threw"

\* the config identities enumerated for the current folders
universe == UNION { Range(getUris(roots[i])) : i \in DOMAIN roots }

\* C7: once init has run, after every handled topology change the registry keys are
\* exactly the config identities enumerated for the current folders, each key once,
\* and every provider no longer in the map has been disposed.
C7_RegistryMatchesUniverse ==
    pc = "running" =>
        /\ keys(providers) = universe
        /\ Cardinality(keys(providers)) = Len(providers)
        /\ \A id \in DOMAIN disposeCalls : id \notin ids(providers) => disposeCalls[id] >= 1

\* a topology change both removed a provider and created one
C7_Witness ==
    /\ lastOp = "updateProviders"
    /\ \E id \in DOMAIN disposeCalls :
          /\ disposeCalls[id] = 1
          /\ \E i \in DOMAIN providers : providers[i].id > id

\* C8: every created provider gets dispose() at most once; one removed by a
\* reconciliation got it at removal, a live one has not got it before teardown, and
\* after teardown every created provider got it exactly once.
C8_DisposedExactlyOnce ==
    /\ \A id \in DOMAIN disposeCalls : disposeCalls[id] <= 1
    /\ \A id \in DOMAIN disposeCalls :
          IF tornDown \/ id \notin ids(providers)
          THEN disposeCalls[id] = 1
          ELSE disposeCalls[id] = 0

\* teardown after a reconciliation removed one provider and left another live
C8_Witness ==
    /\ tornDown
    /\ providers # <<>>
    /\ \E id \in DOMAIN disposeCalls : id \notin ids(providers)

\* C9: a reconciliation against unchanged roots creates no provider, disposes none
\* and leaves the registry map as it was.
C9_ReconcileIdempotent ==
    [][lastOp' = "updateProvidersUnchanged" =>
          /\ providers' = providers
          /\ nextId' = nextId
          /\ disposeCalls' = disposeCalls
          /\ toDispose' = toDispose]_vars

\* a reconciliation ran against unchanged roots with providers in the map
C9_Witness ==
    /\ lastOp = "updateProvidersUnchanged"
    /\ Len(providers) > 1

\* C10: the registry's ready resolves only after every provider live at init's
\* reconciliation settled its readiness, and once they all settled, fulfilled or
\* rejected, it eventually resolves, whatever later-created providers do.
C10_ReadyAfterInitProviders ==
    /\ [](registryReady => \A id \in readyPromises : readiness[id] # "pending")
    /\ ((pc = "running" /\ \A id \in readyPromises : readiness[id] # "pending") ~> registryReady)

\* ready resolved with a rejected init-time provider and a later provider still pending
C10_Witness ==
    /\ registryReady
    /\ \E id \in readyPromises : readiness[id] = "rejected"
    /\ \E id \in DOMAIN readiness : id \notin readyPromises /\ readiness[id] = "pending"

\* the setPreference call has completed, with a boolean or with an exception
spCompleted == sp.pc \in {"done", "threw"}

\* C11: setPreference completes with false, not with an error, exactly when no
\* attempted write reported success, also when no candidate has the target config
\* name and nothing is attempted; the target config name is the first segment of
\* the setting name when that is a section name, else the default config name.
C11_FalseIffNoSuccess ==
    spCompleted =>
        /\ (sp.pc = "done" /\ sp.result = FALSE)
              <=> (\A k \in DOMAIN sp.outcomes : sp.outcomes[k] # "true")
        /\ sp.pc = "done"
        /\ spTargets = {} => sp.attempts = <<>>
        /\ sp.configName = IF sp.name[1] \in {"launch", "tasks"} THEN sp.name[1] ELSE "settings"

\* C12: every provider setPreference attempts a write on is one of the candidates
\* selected for the resource, all of one folder that contains the resource, and has
\* the target config name; no provider of another folder is written.
C12_WritesOnlyCandidates ==
    \A k \in DOMAIN sp.attempts :
        /\ sp.attempts[k] \in Range(sp.providers)
        /\ sp.res.given /\ sp.res.relativity[sp.attempts[k].folderUri] >= 0
        /\ \A h \in DOMAIN sp.attempts : sp.attempts[h].folderUri = sp.attempts[k].folderUri
        /\ getName(sp.attempts[k].configUri) = sp.configName

\* /root1 and /root2 are both registered, "editor.tabSize" is set for a resource
\* of /root1: the only write goes to a "settings" provider of /root1 and succeeds
C12_Witness ==
    /\ sp.pc = "done" /\ sp.result = TRUE
    /\ sp.name = <<"editor", "tabSize">>
    /\ { providers[i].folderUri : i \in DOMAIN providers } = {"/root1", "/root2"}
    /\ Len(sp.attempts) = 1
    /\ sp.attempts[1].folderUri = "/root1"
    /\ sp.attempts[1] \in Range(providers)
    /\ getName(sp.attempts[1].configUri) = "settings"

\* C20: within one setPreference call no provider's write is invoked twice, so the
\* call makes at most one attempt per target-named candidate.
C20_AtMostOneWritePerProvider ==
    /\ \A h, k \in DOMAIN sp.attempts : h # k => sp.attempts[h] # sp.attempts[k]
    /\ Len(sp.attempts) <= Cardinality(spTargets)

\* writes failed in round A, in round B and in round C: the call returned false
\* after one attempt on each target-named candidate
C20_Witness ==
    /\ sp.pc = "done" /\ sp.result = FALSE
    /\ Len(sp.attempts) = 3
    /\ Cardinality(spTargets) = 3
    /\ spRound(sp.attempts[1]) = 1 /\ spRound(sp.attempts[2]) = 2 /\ spRound(sp.attempts[3]) = 3

\* C13: without a resource getProviders returns the empty list, resolve the empty
\* result, getPreferences the empty map, and setPreference returns false without
\* attempting any write; none raises an error.
C13_NoResource ==
    /\ (call.op = "getProviders" /\ ~call.res.given) => call.list = <<>>
    /\ (call.op = "resolve" /\ ~call.res.given) =>
          call.value = Undefined /\ call.configUri = NoUri
    /\ (call.op = "getPreferences" /\ ~call.res.given) =>
          call.map = [n \in PrefNames |-> Undefined] /\ call.list = <<>>
    /\ (sp.pc # "idle" /\ ~sp.res.given) =>
          sp.pc = "done" /\ sp.result = FALSE /\ sp.attempts = <<>>

\* with providers registered, setPreference and then resolve were called without a resource
C13_Witness ==
    /\ Len(providers) > 1
    /\ sp.pc = "done" /\ ~sp.res.given
    /\ call.op = "resolve" /\ ~call.res.given

\* index in the registry map of the first provider of folder f
firstSeen(f) == CHOOSE i \in DOMAIN providers :
                    providers[i].folderUri = f /\ \A j \in 1..(i - 1) : providers[j].folderUri # f

\* C14: when two distinct live folders contain the resource with the same maximal
\* non-negative relativity, getProviders returns the providers of the one seen
\* first in canonical order.
C14_TieFirstSeen ==
    (call.op = "getProviders" /\ call.res.given) =>
        LET live == { providers[i].folderUri : i \in DOMAIN providers }
            best == { f \in live :
                        /\ call.res.relativity[f] >= 0
                        /\ \A g \in live : call.res.relativity[g] <= call.res.relativity[f] }
        IN  Cardinality(best) >= 2 =>
                \E f \in best :
                    /\ \A g \in best : firstSeen(f) <= firstSeen(g)
                    /\ call.list = SelectSeq(providers, LAMBDA p : p.folderUri = f)

\* the config identities of the folders rs in reported order, folder by folder
RECURSIVE enumerated(_)
enumerated(rs) == IF rs = <<>> THEN <<>> ELSE getUris(Head(rs)) \o enumerated(Tail(rs))

\* C15: after init and any sequence of reconciliations the registry's providers are
\* iterated in the order of the current folders as reported and, per folder, of
\* its config identities as reported.
C15_CanonicalOrder ==
    pc = "running" =>
        [i \in DOMAIN providers |-> providers[i].configUri] = enumerated(roots)

\* C16: whatever reconciliations run while setPreference is suspended, every
\* provider whose write it invokes is held by the registry map at that moment.
C16_WritesOnlyHeldProviders ==
    \A k \in DOMAIN sp.held : sp.held[k]

\* C17 as stated: in every reachable state no provider held in the registry map
\* has been disposed.
C17_NoDisposedProviderInMap ==
    \A i \in DOMAIN providers : disposeCalls[providers[i].id] = 0

\* C17 amended: in every reachable state before the registry's own teardown no
\* provider held in the registry map has been disposed.
C17_NoDisposedProviderInMapBeforeTeardown ==
    ~tornDown => \A i \in DOMAIN providers : disposeCalls[providers[i].id] = 0

\* a reconciliation removed and disposed one provider and kept another in the map
C17_Witness ==
    /\ ~tornDown
    /\ lastOp = "updateProviders"
    /\ providers # <<>>
    /\ \E id \in DOMAIN disposeCalls : id \notin ids(providers) /\ disposeCalls[id] = 1

\* C18: a listener forwards a provider's change events from the provider's
\* creation until the provider is disposed: the aggregated stream holds every
\* event fired by a provider not yet disposed, once and in order, and no other,
\* and no listener is left for a provider that reconcile removed.
C18_ForwardingFollowsLifetime ==
    /\ stream = firedLog
    /\ \A id \in DOMAIN disposeCalls : disposeCalls[id] > 0 => id \notin listeners
    /\ ~tornDown => \A i \in DOMAIN providers : providers[i].id \in listeners

\* an event of a provider was forwarded, reconcile then removed that provider
\* while another one is live and forwarded too
C18_Witness ==
    /\ ~tornDown
    /\ Len(stream) = 2
    /\ disposeCalls[stream[1]] = 1 /\ stream[1] \notin listeners
    /\ stream[2] \in ids(providers)

\* C19: when resolve returns a defined value for a key and a resource, the map
\* getPreferences returns for the same resource and provider contents has that
\* value under that key.
C19_ResolveAgreesWithGetPreferences ==
    (call.op = "resolve" /\ call.value # Undefined) =>
        getPreferences(providers, call.res, call.prefs).result[call.name] = call.value

====
